---- MODULE Spec2Model ----
(***************************************************************************)
(* A model of llm_poe.py: the time-bounded model catalog cache             *)
(* (fetch_available_models) and execute of the four model classes: the     *)
(* request payload, the dispatch, the decoding of the streamed and of the  *)
(* plain response.                                                         *)
(***************************************************************************)
EXTENDS Integers, Sequences, FiniteSets, TLC

(***************************************************************************)
(* Bounds of the model.                                                    *)
(***************************************************************************)
MaxTime == 3
MaxDuration == 2
MaxCalls == 3
NThreads == 2
MaxLines == 3
MaxTurns == 2
MaxModels == 2

(***************************************************************************)
(* Python / JSON values.  json null and Python None are the same value.    *)
(***************************************************************************)
None == [t |-> "null"]
JStr(s) == [t |-> "str", s |-> s]
JNum(n) == [t |-> "num", n |-> n]
JArr(a) == [t |-> "arr", a |-> a]
JObj(o) == [t |-> "obj", o |-> o]
JBool(b) == [t |-> "bool", b |-> b]
EmptyObj == JObj([k \in {} |-> None])

\* {"id": name, "object": "model"}
ModelRecord(name) == JObj([k \in {"id", "object"} |-> IF k = "id" THEN JStr(name) ELSE JStr("model")])

FALLBACK_MODELS ==
    JArr(<<ModelRecord("GPT-4o"), ModelRecord("Claude-Sonnet-4"), ModelRecord("Gemini-2.5-Pro"),
           ModelRecord("Llama-3.1-405B"), ModelRecord("Grok-4")>>)

(***************************************************************************)
(* The provider's answers to GET /models.  The catalogs the provider       *)
(* serves are distinct from the static fallback list.                      *)
(***************************************************************************)
Catalog1 == JArr(<<ModelRecord("GPT-5")>>)
Catalog2 == JArr(<<ModelRecord("Flux-Pro"), ModelRecord("Sora-2")>>)
DataObj(d) == JObj([k \in {"object", "data"} |-> IF k = "data" THEN d ELSE JStr("list")])
NoDataObj == JObj([k \in {"object"} |-> JStr("list")])
ErrorObj == JObj([k \in {"error"} |-> JStr("internal")])

CatalogBodies ==
    { [ok |-> FALSE, json |-> None] }                         \* body that is not JSON
    \cup { [ok |-> TRUE, json |-> v] :
             v \in { JArr(<<>>),                              \* JSON, but not an object
                     NoDataObj,                               \* no "data" field
                     DataObj(JArr(<<>>)), DataObj(Catalog1), DataObj(Catalog2),
                     DataObj(None) } }                        \* "data": null

CatalogResponses ==
    { [kind |-> "error", status |-> 0, body |-> [ok |-> FALSE, json |-> None]] }   \* transport error
    \cup { [kind |-> "http", status |-> 500, body |-> [ok |-> TRUE, json |-> ErrorObj]] }
    \cup { [kind |-> "http", status |-> 200, body |-> b] : b \in CatalogBodies }

KeyStates == {"present", "absent", "raises"}
Threads == 1..NThreads

VARIABLES
    _model_cache,      \* module global, line 22
    _cache_timestamp,  \* module global, line 23
    _cache_duration,   \* module global, line 24 (scaled)
    clock,             \* the value time.time() returns
    key_env,           \* what llm.get_key does: returns a key, returns nothing, raises
    pc,                \* per caller: position inside fetch_available_models
    current_time,      \* per caller: local current_time
    models,            \* per caller: local models
    ret,               \* per caller: the value returned (or Raised)
    pre,               \* per caller: the cache pair when the call began
    resp,              \* per caller: the response received from the provider
    nreq,              \* per caller: GET requests issued by the call in progress
    how,               \* per caller: the path the call took
    cache_of,          \* current_time of the fetch that wrote _model_cache
    timestamp_of,      \* models of the fetch that wrote _cache_timestamp
    ncalls,            \* calls begun so far
    calls              \* log of the finished calls

catalogVars == <<_model_cache, _cache_timestamp, _cache_duration, clock, key_env, pc,
                 current_time, models, ret, pre, resp, nreq, how, cache_of, timestamp_of, ncalls, calls>>

(***************************************************************************)
(* execute of PoeModel, PoeImageModel, PoeVideoModel and PoeAudioModel.    *)
(* execute is a generator: it runs from one yield to the next each time    *)
(* the consumer asks for a fragment.                                       *)
(***************************************************************************)

\* a body line: head is what the line starts with, rest is line[6:] of a line
\* that starts with "data: ".  rest.raw is the text "[DONE]", a text json.loads
\* rejects, or JSON text, whose value is rest.val.
Line(head, raw, val) == [head |-> head, rest |-> [raw |-> raw, val |-> val]]
DataLine(val) == Line("data: ", "json", val)

\* {"choices": [first]}
Choices(first) == JObj([k \in {"choices"} |-> JArr(<<first>>)])
\* {"delta": d}
Delta(d) == JObj([k \in {"delta"} |-> d])
\* {"content": c}
Content(c) == JObj([k \in {"content"} |-> c])

Chunks ==
    { Choices(Delta(Content(JStr("This")))),                 \* a delta with content
      Choices(Delta(Content(JStr(" is")))),
      Choices(Delta(Content(None))),                         \* "content": null
      Choices(Delta(EmptyObj)),                              \* "delta": {}
      Choices(Delta(JObj([k \in {"role"} |-> JStr("assistant")]))),
      Choices(EmptyObj),                                     \* no delta
      JObj([k \in {"choices"} |-> JArr(<<>>)]),              \* "choices": []
      JObj([k \in {"id"} |-> JStr("evt")]),                  \* no choices
      JArr(<<>>),                                            \* []
      JNum(123),                                             \* 123
      Choices(Delta(None)),                                  \* "delta": null
      Choices(JStr("x")),                                    \* "choices": ["x"]
      JObj([k \in {"choices"} |-> Content(JStr("x"))]) }     \* "choices": {...}

Lines ==
    { DataLine(c) : c \in Chunks }
    \cup { Line("data: ", "[DONE]", None),                   \* the terminator
           Line("data: ", "{invalid json}", None),           \* json.loads raises
           Line("", "", None),                               \* an empty line
           Line("data:", "json", Choices(Delta(Content(JStr("This"))))) }  \* no blank after "data:"

RECURSIVE SeqsUpTo(_, _)
SeqsUpTo(S, n) ==
    IF n = 0 THEN {<<>>}
    ELSE LET shorter == SeqsUpTo(S, n - 1) IN
         shorter \cup {Append(s, x) : s \in {q \in shorter : Len(q) = n - 1}, x \in S}

Bodies == SeqsUpTo(Lines, MaxLines)

\* the exceptions of the transport: httpx.ConnectError, httpx.ReadTimeout,
\* httpx.RemoteProtocolError
TransportErrors == {"ConnectError", "ReadTimeout", "RemoteProtocolError"}

\* statuses raise_for_status() raises for
ErrorStatuses == {302, 404, 500}

\* what POST /chat/completions with stream = True comes back with
\* broken is the exception iter_lines() raises once the lines have been
\* delivered, "" when the body closes in order
StreamResponses ==
    { [kind |-> "error", err |-> e, status |-> 0, lines |-> <<>>, broken |-> ""] :
          e \in TransportErrors }
    \cup { [kind |-> "http", err |-> "", status |-> st, lines |-> <<>>, broken |-> ""] :
          st \in ErrorStatuses }
    \cup { [kind |-> "http", err |-> "", status |-> 200, lines |-> b, broken |-> e] :
          b \in Bodies, e \in {"", "RemoteProtocolError"} }

\* {"choices": [{"message": m}]}
Completion(m) == Choices(JObj([k \in {"message"} |-> m]))

PostJson ==
    { Completion(Content(JStr("Hello"))),                   \* the documented shape
      JObj([k \in {"id", "choices"} |->                    \* with a field besides choices
              IF k = "id" THEN JStr("cmpl-1")
              ELSE JArr(<<JObj([m \in {"message"} |-> Content(JStr("Hi"))])>>)]),
      JObj([k \in {"choices"} |->                          \* two choices
              JArr(<<JObj([m \in {"message"} |-> Content(JStr("one"))]),
                     JObj([m \in {"message"} |-> Content(JStr("two"))])>>)]),
      Completion(Content(None)),                            \* "content": null
      JObj([k \in {"choices"} |-> JArr(<<>>)]),            \* "choices": []
      JObj([k \in {"choices"} |-> None]),                  \* "choices": null
      JObj([k \in {"id"} |-> JStr("cmpl-2")]),             \* no choices
      Completion(EmptyObj),                                 \* "message": {}
      Completion(None),                                     \* "message": null
      Choices(EmptyObj),                                    \* no message
      Choices(JStr("x")),                                   \* "choices": ["x"]
      JArr(<<>>),                                           \* []
      JNum(123),                                            \* 123
      None }                                                \* null

PostBodies ==
    { [ok |-> FALSE, json |-> None] }                        \* body that is not JSON
    \cup { [ok |-> TRUE, json |-> v] : v \in PostJson }

\* what POST /chat/completions with stream = False comes back with
PostResponses ==
    { [kind |-> "error", err |-> e, status |-> 0, body |-> [ok |-> FALSE, json |-> None]] :
          e \in TransportErrors }
    \cup { [kind |-> "http", err |-> "", status |-> st, body |-> [ok |-> TRUE, json |-> ErrorObj]] :
          st \in ErrorStatuses }
    \cup { [kind |-> "http", err |-> "", status |-> st, body |-> b] : st \in {200, 201}, b \in PostBodies }

\* no response yet
NoResponse == [kind |-> "none", err |-> "", status |-> 0]

VARIABLES
    gen_pc,        \* position of the generator: idle, start, ready, reading, decoding, yielded,
                   \* done, error, closed
    variant,       \* the class whose execute runs
    stream,        \* the argument stream
    options,       \* prompt.options
    conversation,  \* the argument conversation
    payload,       \* local payload
    dispatch,      \* the client call made: stream, post, or none yet
    api_response,  \* the response received
    http_requests, \* requests issued by this execute
    data,          \* local data of the non-streaming branch
    response_json, \* response.response_json
    lines,         \* the lines stream_response.iter_lines() delivers
    pos,           \* lines consumed so far
    fragments,     \* the values yielded so far
    exc,           \* the exception that ended the generator
    exc_status,    \* response.status_code of an HTTPStatusError
    timeout,       \* the timeout argument of the request
    handles,       \* the context managers entered and not left: client, stream
    acquired       \* the context managers entered so far

execVars == <<gen_pc, variant, stream, options, conversation, payload, dispatch, api_response,
              http_requests, data, response_json, lines, pos, fragments, exc, exc_status,
              timeout, handles, acquired>>

(***************************************************************************)
(* register_models.                                                        *)
(***************************************************************************)
VARIABLES
    reg_pc,        \* position of register_models: idle, try, except, done
    reg_models,    \* local models
    reg_i,         \* entries the running loop has gone through
    registered,    \* the instances register was called with, in order
    reg_exc,       \* the exception the except clause caught
    reg_before     \* instances registered before the exception

regVars == <<reg_pc, reg_models, reg_i, registered, reg_exc, reg_before>>

vars == <<catalogVars, execVars, regVars>>

\* the call ended with an exception reaching the caller
Raised == [t |-> "raised"]
NoResp == [kind |-> "none", status |-> 0, body |-> [ok |-> FALSE, json |-> None]]

(***************************************************************************)
(* Python helpers.                                                         *)
(***************************************************************************)
\* d.get(key) with the default forgotten
DictGet_NoDefault(d, key, default) == IF key \in DOMAIN d.o THEN d.o[key] ELSE None

\* d.get(key, default) on a dict
DictGet(d, key, default) == IF key \in DOMAIN d.o THEN d.o[key] ELSE default

\* get_api_key_optional without its try: the lookup's exception escapes
get_api_key_optional_NoTry(env) ==
    IF env = "raises" THEN [t |-> "raised"]
    ELSE IF env = "present" THEN JStr("poe-key") ELSE None

\* get_api_key_optional that hands out a placeholder key when there is none
get_api_key_optional_Placeholder(env) ==
    IF env = "raises" THEN None ELSE JStr("poe-key")

\* get_api_key_optional: llm.get_key inside try / bare except
get_api_key_optional(env) ==
    IF env = "raises" THEN None
    ELSE IF env = "present" THEN JStr("poe-key") ELSE None

\* the status is never looked at
raise_for_status_Missing(r) == FALSE

\* response.raise_for_status()
raise_for_status(r) == r.status < 200 \/ r.status > 299

\* lines 67-76: the outcome of the request and of reading the body: the
\* exception raised, or the value of models
ExtractModels(r) ==
    IF r.kind = "error" THEN [raised |-> TRUE, exc |-> "ConnectError", value |-> None]
    ELSE IF raise_for_status(r) THEN [raised |-> TRUE, exc |-> "HTTPStatusError", value |-> None]
    ELSE IF ~r.body.ok THEN [raised |-> TRUE, exc |-> "JSONDecodeError", value |-> None]
    ELSE IF r.body.json.t # "obj" THEN [raised |-> TRUE, exc |-> "AttributeError", value |-> None]
    ELSE [raised |-> FALSE, exc |-> "", value |-> DictGet(r.body.json, "data", JArr(<<>>))]

\* line 84: except Exception
Caught(e) == TRUE

\* line 51 with <= for <
IsFresh_Le(now, timestamp, duration) == now - timestamp <= duration

\* line 51 with the comparison turned round
IsFresh_Gt(now, timestamp, duration) == now - timestamp > duration

\* line 51: current_time - _cache_timestamp < _cache_duration
IsFresh(now, timestamp, duration) == now - timestamp < duration

CatalogInit ==
    /\ _model_cache = None
    /\ _cache_timestamp = None
    /\ _cache_duration \in 0..MaxDuration
    /\ clock = 0
    /\ key_env \in KeyStates
    /\ pc = [t \in Threads |-> "idle"]
    /\ current_time = [t \in Threads |-> 0]
    /\ models = [t \in Threads |-> None]
    /\ ret = [t \in Threads |-> None]
    /\ pre = [t \in Threads |-> <<None, None>>]
    /\ resp = [t \in Threads |-> NoResp]
    /\ nreq = [t \in Threads |-> 0]
    /\ how = [t \in Threads |-> "none"]
    /\ cache_of = 0
    /\ timestamp_of = None
    /\ ncalls = 0
    /\ calls = <<>>


ExecInit ==
    /\ gen_pc = "idle"
    /\ variant = "none"
    /\ stream = FALSE
    /\ options = <<>>
    /\ conversation = None
    /\ payload = <<>>
    /\ dispatch = "none"
    /\ api_response = NoResponse
    /\ http_requests = 0
    /\ data = None
    /\ response_json = None
    /\ exc_status = 0
    /\ timeout = 0
    /\ handles = {}
    /\ acquired = {}
    /\ lines = <<>>
    /\ pos = 0
    /\ fragments = <<>>
    /\ exc = ""

RegInit ==
    /\ reg_pc = "idle"
    /\ reg_models = None
    /\ reg_i = 0
    /\ registered = <<>>
    /\ reg_exc = ""
    /\ reg_before = 0

Init ==
    /\ CatalogInit
    /\ RegInit
    /\ ExecInit

\* the clock advances
Tick ==
    /\ clock < MaxTime
    /\ clock' = clock + 1
    /\ UNCHANGED <<_model_cache, _cache_timestamp, _cache_duration, key_env, pc, current_time,
                   models, ret, pre, resp, nreq, how, cache_of, timestamp_of, ncalls, calls>>
    /\ UNCHANGED <<execVars, regVars>>

\* the credential store changes between calls
SetKey(k) ==
    /\ \A t \in Threads : pc[t] = "idle"
    /\ k # key_env
    /\ key_env' = k
    /\ UNCHANGED <<_model_cache, _cache_timestamp, _cache_duration, clock, pc, current_time,
                   models, ret, pre, resp, nreq, how, cache_of, timestamp_of, ncalls, calls>>
    /\ UNCHANGED <<execVars, regVars>>

\* line 48: current_time = time.time()
Call(t) ==
    /\ pc[t] = "idle"
    /\ ncalls < MaxCalls
    /\ ncalls' = ncalls + 1
    /\ pc' = [pc EXCEPT ![t] = "l49"]
    /\ current_time' = [current_time EXCEPT ![t] = clock]
    /\ pre' = [pre EXCEPT ![t] = <<_model_cache, _cache_timestamp>>]
    /\ UNCHANGED <<_model_cache, _cache_timestamp, _cache_duration, clock, key_env,
                   models, ret, resp, nreq, how, cache_of, timestamp_of, calls>>
    /\ UNCHANGED <<execVars, regVars>>

\* line 49: _model_cache is not None
CheckCache(t) ==
    /\ pc[t] = "l49"
    /\ pc' = [pc EXCEPT ![t] = IF _model_cache # None THEN "l50" ELSE "l55"]
    /\ UNCHANGED <<_model_cache, _cache_timestamp, _cache_duration, clock, key_env, current_time,
                   models, ret, pre, resp, nreq, how, cache_of, timestamp_of, ncalls, calls>>
    /\ UNCHANGED <<execVars, regVars>>

\* line 50: _cache_timestamp is not None
CheckTimestamp(t) ==
    /\ pc[t] = "l50"
    /\ pc' = [pc EXCEPT ![t] = IF _cache_timestamp # None THEN "l51" ELSE "l55"]
    /\ UNCHANGED <<_model_cache, _cache_timestamp, _cache_duration, clock, key_env, current_time,
                   models, ret, pre, resp, nreq, how, cache_of, timestamp_of, ncalls, calls>>
    /\ UNCHANGED <<execVars, regVars>>

\* line 51: current_time - _cache_timestamp < _cache_duration
CheckAge(t) ==
    /\ pc[t] = "l51"
    /\ pc' = [pc EXCEPT ![t] =
                IF IsFresh(current_time[t], _cache_timestamp.n, _cache_duration)
                THEN "l52" ELSE "l55"]
    /\ UNCHANGED <<_model_cache, _cache_timestamp, _cache_duration, clock, key_env, current_time,
                   models, ret, pre, resp, nreq, how, cache_of, timestamp_of, ncalls, calls>>
    /\ UNCHANGED <<execVars, regVars>>

\* line 52: return _model_cache
ReturnCached(t) ==
    /\ pc[t] = "l52"
    /\ ret' = [ret EXCEPT ![t] = _model_cache]
    /\ how' = [how EXCEPT ![t] = "cached"]
    /\ pc' = [pc EXCEPT ![t] = "done"]
    /\ UNCHANGED <<_model_cache, _cache_timestamp, _cache_duration, clock, key_env, current_time,
                   models, pre, resp, nreq, cache_of, timestamp_of, ncalls, calls>>
    /\ UNCHANGED <<execVars, regVars>>

\* lines 55-58: the credential lookup, outside the try block of line 60
GetKey(t) ==
    /\ pc[t] = "l55"
    /\ LET api_key == get_api_key_optional(key_env) IN
         IF api_key = Raised
         THEN /\ ret' = [ret EXCEPT ![t] = Raised]
              /\ how' = [how EXCEPT ![t] = "raised"]
              /\ pc' = [pc EXCEPT ![t] = "done"]
         ELSE IF api_key = None
         THEN /\ ret' = [ret EXCEPT ![t] = FALLBACK_MODELS]
              /\ how' = [how EXCEPT ![t] = "nokey"]
              /\ pc' = [pc EXCEPT ![t] = "done"]
         ELSE /\ pc' = [pc EXCEPT ![t] = "l67"]
              /\ UNCHANGED <<ret, how>>
    /\ UNCHANGED <<_model_cache, _cache_timestamp, _cache_duration, clock, key_env, current_time,
                   models, pre, resp, nreq, cache_of, timestamp_of, ncalls, calls>>
    /\ UNCHANGED <<execVars, regVars>>

\* lines 60-76 and 84-87: the GET request, the reading of its body, the except clause
Fetch(t) ==
    /\ pc[t] = "l67"
    /\ \E r \in CatalogResponses :
         /\ resp' = [resp EXCEPT ![t] = r]
         /\ LET x == ExtractModels(r) IN
              IF x.raised
              THEN /\ ret' = [ret EXCEPT ![t] = IF Caught(x.exc) THEN FALLBACK_MODELS ELSE Raised]
                   /\ how' = [how EXCEPT ![t] = IF Caught(x.exc) THEN "failed" ELSE "raised"]
                   /\ pc' = [pc EXCEPT ![t] = "done"]
                   /\ UNCHANGED models
              ELSE /\ models' = [models EXCEPT ![t] = x.value]
                   /\ pc' = [pc EXCEPT ![t] = "l79"]
                   /\ UNCHANGED <<ret, how>>
    /\ nreq' = [nreq EXCEPT ![t] = nreq[t] + 1]
    /\ UNCHANGED <<_model_cache, _cache_timestamp, _cache_duration, clock, key_env, current_time,
                   pre, cache_of, timestamp_of, ncalls, calls>>
    /\ UNCHANGED <<execVars, regVars>>

\* line 79: _model_cache = models
WriteCache(t) ==
    /\ pc[t] = "l79"
    /\ _model_cache' = models[t]
    /\ cache_of' = current_time[t]
    /\ pc' = [pc EXCEPT ![t] = "l80"]
    /\ UNCHANGED <<_cache_timestamp, _cache_duration, clock, key_env, current_time,
                   models, ret, pre, resp, nreq, how, timestamp_of, ncalls, calls>>
    /\ UNCHANGED <<execVars, regVars>>

\* line 80: _cache_timestamp = current_time
WriteTimestamp(t) ==
    /\ pc[t] = "l80"
    /\ _cache_timestamp' = JNum(current_time[t])
    /\ timestamp_of' = models[t]
    /\ pc' = [pc EXCEPT ![t] = "l82"]
    /\ UNCHANGED <<_model_cache, _cache_duration, clock, key_env, current_time,
                   models, ret, pre, resp, nreq, how, cache_of, ncalls, calls>>
    /\ UNCHANGED <<execVars, regVars>>

\* line 82: return models
ReturnModels(t) ==
    /\ pc[t] = "l82"
    /\ ret' = [ret EXCEPT ![t] = models[t]]
    /\ how' = [how EXCEPT ![t] = "stored"]
    /\ pc' = [pc EXCEPT ![t] = "done"]
    /\ UNCHANGED <<_model_cache, _cache_timestamp, _cache_duration, clock, key_env, current_time,
                   models, pre, resp, nreq, cache_of, timestamp_of, ncalls, calls>>
    /\ UNCHANGED <<execVars, regVars>>

\* the call is over: its locals are gone
Return(t) ==
    /\ pc[t] = "done"
    /\ pc' = [pc EXCEPT ![t] = "idle"]
    /\ current_time' = [current_time EXCEPT ![t] = 0]
    /\ models' = [models EXCEPT ![t] = None]
    /\ ret' = [ret EXCEPT ![t] = None]
    /\ pre' = [pre EXCEPT ![t] = <<None, None>>]
    /\ resp' = [resp EXCEPT ![t] = NoResp]
    /\ nreq' = [nreq EXCEPT ![t] = 0]
    /\ how' = [how EXCEPT ![t] = "none"]
    /\ UNCHANGED <<_model_cache, _cache_timestamp, _cache_duration, clock, key_env,
                   cache_of, timestamp_of, ncalls>>
    /\ UNCHANGED <<execVars, regVars>>

\* the caller has the result; the call is logged
Finish(t) ==
    /\ Return(t)
    /\ calls' = Append(calls, [start |-> current_time[t], cred |-> key_env = "present",
                               reqs |-> nreq[t], how |-> how[t], list |-> ret[t].t = "arr"])

\* the caller has the result
FinishConc(t) ==
    /\ Return(t)
    /\ UNCHANGED calls

Step(t) ==
    \/ Call(t)
    \/ CheckCache(t)
    \/ CheckTimestamp(t)
    \/ CheckAge(t)
    \/ ReturnCached(t)
    \/ GetKey(t)
    \/ Fetch(t)
    \/ WriteCache(t)
    \/ WriteTimestamp(t)
    \/ ReturnModels(t)

\* calls made one after the other
Next ==
    \/ Tick
    \/ \E k \in KeyStates : SetKey(k)
    \/ Step(1)
    \/ Finish(1)

Spec == Init /\ [][Next]_vars

\* calls made by concurrent callers
NextConc ==
    \/ Tick
    \/ \E t \in Threads : Step(t)
    \/ \E t \in Threads : FinishConc(t)

\* concurrent callers of a process with a credential and a cache duration
\* that lets the cache be fresh at some calls and expired at others
InitConc ==
    /\ Init
    /\ key_env = "present"
    /\ _cache_duration = MaxDuration

SpecConc == InitConc /\ [][NextConc]_vars

(***************************************************************************)
(* Python operations on parsed JSON.  A result is the value, or the        *)
(* exception the operation raises.                                         *)
(***************************************************************************)
Val(v) == [exc |-> "", v |-> v]
Exc(e) == [exc |-> e, v |-> None]

\* needle in s, for the strings of this model: the strings that contain a
\* key are the key itself
StrContains(s, needle) == s = needle

\* key in c
PyIn(key, c) ==
    IF c.t = "obj" THEN Val(key \in DOMAIN c.o)
    ELSE IF c.t = "arr" THEN Val(\E i \in 1..Len(c.a) : c.a[i] = JStr(key))
    ELSE IF c.t = "str" THEN Val(StrContains(c.s, key))
    ELSE Exc("TypeError")

\* c[key], key a string
PyItem(c, key) ==
    IF c.t = "obj" THEN (IF key \in DOMAIN c.o THEN Val(c.o[key]) ELSE Exc("KeyError"))
    ELSE Exc("TypeError")

\* c[0]
PyFirst(c) ==
    IF c.t = "arr" THEN (IF Len(c.a) > 0 THEN Val(c.a[1]) ELSE Exc("IndexError"))
    ELSE IF c.t = "str" THEN (IF c.s # "" THEN Val(JStr("c")) ELSE Exc("IndexError"))
    ELSE IF c.t = "obj" THEN Exc("KeyError")
    ELSE Exc("TypeError")

\* c.get(key, default)
PyGet(c, key, default) ==
    IF c.t = "obj" THEN Val(DictGet(c, key, default)) ELSE Exc("AttributeError")

\* bool(v)
Truthy(v) ==
    IF v.t = "arr" THEN Len(v.a) > 0
    ELSE IF v.t = "obj" THEN DOMAIN v.o # {}
    ELSE IF v.t = "str" THEN v.s # ""
    ELSE IF v.t = "num" THEN v.n # 0
    ELSE FALSE

Skip == [kind |-> "skip", exc |-> "", v |-> None]
Yield(v) == [kind |-> "yield", exc |-> "", v |-> v]
Raise(e) == [kind |-> "raise", exc |-> e, v |-> None]
Break == [kind |-> "break", exc |-> "", v |-> None]

\* json.loads(data)
json_loads(text) == IF text.raw = "json" THEN Val(text.val) ELSE Exc("JSONDecodeError")

\* lines 261-264 (459-462)
DecodeChunk(chunk) ==
    LET has == PyIn("choices", chunk) IN
    IF has.exc # "" THEN Raise(has.exc)
    ELSE IF ~has.v THEN Skip
    ELSE LET choices == PyItem(chunk, "choices") IN
    IF choices.exc # "" THEN Raise(choices.exc)
    ELSE IF ~Truthy(choices.v) THEN Skip
    ELSE LET first == PyFirst(choices.v) IN
    IF first.exc # "" THEN Raise(first.exc)
    ELSE LET delta == PyGet(first.v, "delta", EmptyObj) IN
    IF delta.exc # "" THEN Raise(delta.exc)
    ELSE LET hasContent == PyIn("content", delta.v) IN
    IF hasContent.exc # "" THEN Raise(hasContent.exc)
    ELSE IF ~hasContent.v THEN Skip
    ELSE LET content == PyItem(delta.v, "content") IN
    IF content.exc # "" THEN Raise(content.exc)
    ELSE Yield(content.v)

\* the loop without its try: nothing is caught
CaughtInLoop_Nothing(e) == FALSE

\* line 265 (463): except json.JSONDecodeError
CaughtInLoop(e) == e = "JSONDecodeError"

\* the body of the loop without lines 257-258: the terminator is one more
\* line that json.loads rejects
ProcessLine_NoBreak(line) ==
    IF line.head # "data: " THEN Skip
    ELSE LET chunk == json_loads(line.rest) IN
         LET r == IF chunk.exc # "" THEN Raise(chunk.exc) ELSE DecodeChunk(chunk.v) IN
         IF r.kind = "raise" /\ CaughtInLoop(r.exc) THEN Skip ELSE r

\* lines 255-266 (453-464): the body of the loop for one line
ProcessLine(line) ==
    IF line.head # "data: " THEN Skip
    ELSE IF line.rest.raw = "[DONE]" THEN Break
    ELSE LET chunk == json_loads(line.rest) IN
         LET r == IF chunk.exc # "" THEN Raise(chunk.exc) ELSE DecodeChunk(chunk.v) IN
         IF r.kind = "raise" /\ CaughtInLoop(r.exc) THEN Skip ELSE r

\* get_api_key that hands out a placeholder key when there is none
get_api_key_Placeholder(env) ==
    IF env = "raises" THEN Exc("KeyLookupError") ELSE Val(JStr("poe-key"))

\* get_api_key, lines 27-32: the key, or the exception raised
get_api_key(env) ==
    IF env = "raises" THEN Exc("KeyLookupError")
    ELSE IF env = "present" THEN Val(JStr("poe-key"))
    ELSE Exc("ModelError")

\* the text of the llm.ModelError of line 31, word by word
ModelErrorMessage == <<"POE_API_KEY", "environment", "variable", "is", "not", "set">>

(***************************************************************************)
(* The request payload, lines 225-242 (PoeModel), 299-325 (PoeImageModel), *)
(* 359-383 (PoeVideoModel), 417-440 (PoeAudioModel).                       *)
(***************************************************************************)
Classes == {"PoeModel", "PoeImageModel", "PoeVideoModel", "PoeAudioModel"}

\* self.model_name of the registered instance
ModelName(class) ==
    CASE class = "PoeModel" -> "GPT-4o"
      [] class = "PoeImageModel" -> "Flux-Pro"
      [] class = "PoeVideoModel" -> "Sora-2"
      [] class = "PoeAudioModel" -> "ElevenLabs"

\* the fields of the Options class of each model class, lines 173-200
OptionNames(class) ==
    {"temperature", "max_tokens"} \cup
        CASE class = "PoeImageModel" -> {"size", "quality"}
          [] class = "PoeVideoModel" -> {"duration", "aspect_ratio"}
          [] class = "PoeAudioModel" -> {"voice", "speed"}
          [] OTHER -> {}

\* values the validation of each field lets through (temperature >= 0, max_tokens > 0)
OptionValues(name) ==
    CASE name = "temperature" -> {None, JNum(0), JNum(1)}
      [] name = "max_tokens" -> {None, JNum(1)}
      [] name = "size" -> {None, JStr(""), JStr("1024x1024")}
      [] name = "quality" -> {None, JStr("standard")}
      [] name = "duration" -> {None, JNum(0), JNum(10)}
      [] name = "aspect_ratio" -> {None, JStr("16:9")}
      [] name = "voice" -> {None, JStr(""), JStr("alloy")}
      [] name = "speed" -> {None, JNum(0), JNum(1)}

AllOptionValues ==
    {None, JNum(0), JNum(1), JNum(10), JStr(""), JStr("1024x1024"), JStr("standard"),
     JStr("16:9"), JStr("alloy")}

\* the option objects of a class
Options(class) ==
    {o \in [OptionNames(class) -> AllOptionValues] : \A n \in OptionNames(class) : o[n] \in OptionValues(n)}

\* the defaults of lines 173-200
DefaultOptions(class) ==
    [n \in OptionNames(class) |->
        CASE n = "temperature" -> JNum(1)
          [] n = "max_tokens" -> None
          [] n = "size" -> JStr("1024x1024")
          [] n = "quality" -> JStr("standard")
          [] n = "duration" -> JNum(10)
          [] n = "aspect_ratio" -> JStr("16:9")
          [] n = "voice" -> JStr("alloy")
          [] n = "speed" -> JNum(1)]

\* prompt.prompt
PromptText == "P"

\* one earlier response of the conversation: prompt.prompt and text()
Turns == {[prompt |-> "Q1", text |-> "A1"], [prompt |-> "Q2", text |-> "A2"]}

\* conversation: None, or an object with its responses in chronological order
Conversations ==
    {None} \cup {[t |-> "conversation", responses |-> s] : s \in SeqsUpTo(Turns, MaxTurns)}

\* {"role": role, "content": content}
Message(role, content) ==
    JObj([k \in {"role", "content"} |-> IF k = "role" THEN JStr(role) ELSE JStr(content)])

\* lines 227-229: the loop over conversation.responses
RECURSIVE History(_)
History(responses) ==
    IF responses = <<>> THEN <<>>
    ELSE <<Message("user", Head(responses).prompt), Message("assistant", Head(responses).text)>>
            \o History(Tail(responses))

\* the prompt appended before the history instead of after it
BuildMessages_PromptFirst(prompt, conv) ==
    <<Message("user", prompt)>> \o (IF conv # None THEN History(conv.responses) ELSE <<>>)

\* lines 225-231: messages
BuildMessages(prompt, conv) ==
    (IF conv # None THEN History(conv.responses) ELSE <<>>) \o <<Message("user", prompt)>>

\* the stream entry of the payload: lines 236 and 422 against lines 312 and 370
StreamField(class, s) ==
    IF class \in {"PoeImageModel", "PoeVideoModel"} THEN FALSE ELSE s

\* the test that guards payload[name] = value: "is not None" for temperature
\* and max_tokens (lines 239-242), the truth value for the fields of the
\* media classes (lines 316-319, 374-377, 431-434)
OptionIncluded(name, value) ==
    IF name \in {"temperature", "max_tokens"} THEN value # None ELSE Truthy(value)

\* lines 233-242: payload
BuildPayload(class, prompt, s, o, conv) ==
    LET included == {n \in DOMAIN o : OptionIncluded(n, o[n])} IN
    [k \in {"model", "messages", "stream"} \cup included |->
        CASE k = "model" -> JStr(ModelName(class))
          [] k = "messages" -> JArr(BuildMessages(prompt, conv))
          [] k = "stream" -> JBool(StreamField(class, s))
          [] OTHER -> o[k]]

\* the branch follows the argument stream in every class
TakesStreamPath_Requested(class, s) == s

\* line 245 (444): if stream; PoeImageModel and PoeVideoModel have no such branch
TakesStreamPath(class, s) == class \in {"PoeModel", "PoeAudioModel"} /\ s

\* lines 277-279 (338-340, 395-397, 475-477): the fragment of a parsed body
DecodeBody(body) ==
    LET has == PyIn("choices", body) IN
    IF has.exc # "" THEN Raise(has.exc)
    ELSE IF ~has.v THEN Skip
    ELSE LET choices == PyItem(body, "choices") IN
    IF choices.exc # "" THEN Raise(choices.exc)
    ELSE IF ~Truthy(choices.v) THEN Skip
    ELSE LET first == PyFirst(choices.v) IN
    IF first.exc # "" THEN Raise(first.exc)
    ELSE LET message == PyItem(first.v, "message") IN
    IF message.exc # "" THEN Raise(message.exc)
    ELSE LET content == PyItem(message.v, "content") IN
    IF content.exc # "" THEN Raise(content.exc)
    ELSE Yield(content.v)

\* api_response.json(), line 275
response_json_of(r) == IF r.body.ok THEN Val(r.body.json) ELSE Exc("JSONDecodeError")

(***************************************************************************)
(* execute, a generator: each action runs it from one suspension point to  *)
(* the next.                                                               *)
(***************************************************************************)
\* execute(prompt, stream, response, conversation): the generator is made
Execute(class, s, o, conv) ==
    /\ gen_pc = "idle"
    /\ gen_pc' = "start"
    /\ variant' = class
    /\ stream' = s
    /\ options' = o
    /\ conversation' = conv
    /\ UNCHANGED <<payload, dispatch, api_response, http_requests, data, response_json,
                   lines, pos, fragments, exc, exc_status, timeout, handles, acquired>>
    /\ UNCHANGED <<catalogVars, regVars>>

\* lines 218-242: the credential, the messages, the payload
Prepare ==
    /\ gen_pc = "start"
    /\ LET api_key == get_api_key(key_env) IN
         IF api_key.exc # ""
         THEN /\ gen_pc' = "error"
              /\ exc' = api_key.exc
              /\ UNCHANGED payload
         ELSE /\ gen_pc' = "ready"
              /\ payload' = BuildPayload(variant, PromptText, stream, options, conversation)
              /\ UNCHANGED exc
    /\ UNCHANGED <<variant, stream, options, conversation, dispatch, api_response, http_requests,
                   data, response_json, lines, pos, fragments, exc_status, timeout, handles,
                   acquired>>
    /\ UNCHANGED <<catalogVars, regVars>>

\* an except clause around the request that turns the exception into llm.ModelError
LeavesWith_AsModelError(e) == "ModelError"

\* lines 244-281: the with block has no except clause; the exception raised
\* inside it is the one that leaves execute
LeavesWith(e) == e

\* the audio class with the timeout of the text class
Timeout_AudioAsText(class) ==
    CASE class = "PoeModel" -> 30
      [] class = "PoeImageModel" -> 60
      [] class = "PoeVideoModel" -> 120
      [] class = "PoeAudioModel" -> 30

\* the timeout argument: lines 251 and 272, 333, 390, 449 and 470
Timeout(class) ==
    CASE class = "PoeModel" -> 30
      [] class = "PoeImageModel" -> 60
      [] class = "PoeVideoModel" -> 120
      [] class = "PoeAudioModel" -> 60

\* how the generator has left its code: by return, by an exception, or by
\* close() at a yield
ExitKind(p) ==
    CASE p = "done" -> "return"
      [] p = "error" -> "raise"
      [] p = "closed" -> "close"

\* close() calls at the end of the block in place of the with statements:
\* they are reached on return only
WithExit_ReturnOnly(held, exit) == IF exit = "return" THEN {} ELSE held

\* lines 244 and 246 (268): the with statements leave their context
\* managers on return, on an exception and on GeneratorExit alike
WithExit(held, exit) == {}

\* the context managers still entered when the generator is at p
HandlesAt(p, held) ==
    IF p \in {"done", "error", "closed"} THEN WithExit(held, ExitKind(p)) ELSE held

\* lines 246-253: client.stream("POST", ...), raise_for_status
SendStream ==
    \E r \in StreamResponses :
        /\ dispatch' = "stream"
        /\ api_response' = r
        /\ http_requests' = http_requests + 1
        /\ acquired' = IF r.kind = "error" THEN {"client"} ELSE {"client", "stream"}
        /\ IF r.kind = "error"
           THEN /\ gen_pc' = "error"
                /\ exc' = LeavesWith(r.err)
                /\ UNCHANGED <<lines, exc_status>>
           ELSE IF raise_for_status(r)
           THEN /\ gen_pc' = "error"
                /\ exc' = "HTTPStatusError"
                /\ exc_status' = r.status
                /\ UNCHANGED lines
           ELSE /\ gen_pc' = "reading"
                /\ lines' = r.lines
                /\ UNCHANGED <<exc, exc_status>>
        /\ UNCHANGED data

\* lines 268-275: client.post(...), raise_for_status, json()
SendPost ==
    \E r \in PostResponses :
        /\ dispatch' = "post"
        /\ api_response' = r
        /\ http_requests' = http_requests + 1
        /\ acquired' = {"client"}
        /\ IF r.kind = "error"
           THEN /\ gen_pc' = "error"
                /\ exc' = LeavesWith(r.err)
                /\ UNCHANGED <<data, exc_status>>
           ELSE IF raise_for_status(r)
           THEN /\ gen_pc' = "error"
                /\ exc' = "HTTPStatusError"
                /\ exc_status' = r.status
                /\ UNCHANGED data
           ELSE LET parsed == response_json_of(r) IN
                IF parsed.exc # ""
                THEN /\ gen_pc' = "error"
                     /\ exc' = parsed.exc
                     /\ UNCHANGED <<data, exc_status>>
                ELSE /\ gen_pc' = "decoding"
                     /\ data' = parsed.v
                     /\ UNCHANGED <<exc, exc_status>>
        /\ UNCHANGED lines

\* lines 244-253, 267-275: the request, on the branch that stream selects
Send ==
    /\ gen_pc = "ready"
    /\ IF TakesStreamPath(variant, stream) THEN SendStream ELSE SendPost
    /\ timeout' = Timeout(variant)
    /\ handles' = HandlesAt(gen_pc', acquired')
    /\ UNCHANGED <<variant, stream, options, conversation, payload, response_json, pos, fragments>>
    /\ UNCHANGED <<catalogVars, regVars>>

\* the whole body is read before a line is processed: a broken stream
\* raises before any fragment is delivered
ReadLine_ReadAhead ==
    /\ gen_pc = "reading"
    /\ IF api_response.broken # ""
       THEN /\ gen_pc' = "error"
            /\ exc' = LeavesWith(api_response.broken)
            /\ UNCHANGED <<pos, fragments>>
       ELSE IF pos = Len(lines)
            THEN /\ gen_pc' = "done"
                 /\ UNCHANGED <<pos, fragments, exc>>
            ELSE LET r == ProcessLine(lines[pos + 1]) IN
                 /\ pos' = pos + 1
                 /\ gen_pc' = CASE r.kind = "skip" -> "reading"
                                [] r.kind = "break" -> "done"
                                [] r.kind = "yield" -> "yielded"
                                [] r.kind = "raise" -> "error"
                 /\ fragments' = IF r.kind = "yield" THEN Append(fragments, r.v) ELSE fragments
                 /\ exc' = IF r.kind = "raise" THEN r.exc ELSE exc
    /\ handles' = HandlesAt(gen_pc', handles)
    /\ UNCHANGED <<variant, stream, options, conversation, payload, dispatch, api_response,
                   http_requests, data, response_json, lines, exc_status, timeout, acquired>>
    /\ UNCHANGED <<catalogVars, regVars>>

\* lines 254-266 (452-464): one turn of the loop over iter_lines()
ReadLine ==
    /\ gen_pc = "reading"
    /\ IF pos = Len(lines)
       THEN IF api_response.broken # ""
            THEN /\ gen_pc' = "error"
                 /\ exc' = LeavesWith(api_response.broken)
                 /\ UNCHANGED <<pos, fragments>>
            ELSE /\ gen_pc' = "done"
                 /\ UNCHANGED <<pos, fragments, exc>>
       ELSE LET r == ProcessLine(lines[pos + 1]) IN
            /\ pos' = pos + 1
            /\ gen_pc' = CASE r.kind = "skip" -> "reading"
                           [] r.kind = "break" -> "done"
                           [] r.kind = "yield" -> "yielded"
                           [] r.kind = "raise" -> "error"
            /\ fragments' = IF r.kind = "yield" THEN Append(fragments, r.v) ELSE fragments
            /\ exc' = IF r.kind = "raise" THEN r.exc ELSE exc
    /\ handles' = HandlesAt(gen_pc', handles)
    /\ UNCHANGED <<variant, stream, options, conversation, payload, dispatch, api_response,
                   http_requests, data, response_json, lines, exc_status, timeout, acquired>>
    /\ UNCHANGED <<catalogVars, regVars>>

\* response.response_json = data moved before the yield
Decode_StoreFirst ==
    /\ gen_pc = "decoding"
    /\ LET r == DecodeBody(data) IN
         /\ gen_pc' = CASE r.kind = "skip" -> "done"
                        [] r.kind = "yield" -> "yielded"
                        [] r.kind = "raise" -> "error"
         /\ fragments' = IF r.kind = "yield" THEN Append(fragments, r.v) ELSE fragments
         /\ exc' = IF r.kind = "raise" THEN r.exc ELSE exc
         /\ response_json' = data
    /\ handles' = HandlesAt(gen_pc', handles)
    /\ UNCHANGED <<variant, stream, options, conversation, payload, dispatch, api_response,
                   http_requests, data, lines, pos, exc_status, timeout, acquired>>
    /\ UNCHANGED <<catalogVars, regVars>>

\* lines 277-281: the fragment of the parsed body; without a fragment the
\* body goes straight into response.response_json
Decode ==
    /\ gen_pc = "decoding"
    /\ LET r == DecodeBody(data) IN
         /\ gen_pc' = CASE r.kind = "skip" -> "done"
                        [] r.kind = "yield" -> "yielded"
                        [] r.kind = "raise" -> "error"
         /\ fragments' = IF r.kind = "yield" THEN Append(fragments, r.v) ELSE fragments
         /\ exc' = IF r.kind = "raise" THEN r.exc ELSE exc
         /\ response_json' = IF r.kind = "skip" THEN data ELSE response_json
    /\ handles' = HandlesAt(gen_pc', handles)
    /\ UNCHANGED <<variant, stream, options, conversation, payload, dispatch, api_response,
                   http_requests, data, lines, pos, exc_status, timeout, acquired>>
    /\ UNCHANGED <<catalogVars, regVars>>

\* the chunk just decoded kept in response.response_json on the way back
\* into the loop
Resume_StoresChunk ==
    /\ gen_pc = "yielded"
    /\ IF dispatch = "stream"
       THEN /\ gen_pc' = "reading"
            /\ response_json' = lines[pos].rest.val
       ELSE /\ gen_pc' = "done"
            /\ response_json' = data
    /\ handles' = HandlesAt(gen_pc', handles)
    /\ UNCHANGED <<variant, stream, options, conversation, payload, dispatch, api_response,
                   http_requests, data, lines, pos, fragments, exc, exc_status, timeout, acquired>>
    /\ UNCHANGED <<catalogVars, regVars>>

\* the consumer asks for the next fragment: execution goes on after the
\* yield, into the loop (line 254) or to line 281
Resume ==
    /\ gen_pc = "yielded"
    /\ IF dispatch = "stream"
       THEN /\ gen_pc' = "reading"
            /\ UNCHANGED response_json
       ELSE /\ gen_pc' = "done"
            /\ response_json' = data
    /\ handles' = HandlesAt(gen_pc', handles)
    /\ UNCHANGED <<variant, stream, options, conversation, payload, dispatch, api_response,
                   http_requests, data, lines, pos, fragments, exc, exc_status, timeout, acquired>>
    /\ UNCHANGED <<catalogVars, regVars>>

\* the consumer gives the generator up at a yield (close(), or the last
\* reference dropped): GeneratorExit is raised at the yield of line 264 or 279
Close ==
    /\ gen_pc = "yielded"
    /\ gen_pc' = "closed"
    /\ handles' = HandlesAt(gen_pc', handles)
    /\ UNCHANGED <<variant, stream, options, conversation, payload, dispatch, api_response,
                   http_requests, data, response_json, lines, pos, fragments, exc, exc_status,
                   timeout, acquired>>
    /\ UNCHANGED <<catalogVars, regVars>>

\* the streamed calls of PoeModel and PoeAudioModel
NextStream ==
    \/ \E class \in {"PoeModel", "PoeAudioModel"} : Execute(class, TRUE, DefaultOptions(class), None)
    \/ Prepare
    \/ Send
    \/ ReadLine
    \/ Resume
    \/ Close

\* a streamed call; the catalog cache takes no part
InitStream ==
    /\ CatalogInit
    /\ _cache_duration = 0
    /\ ExecInit
    /\ RegInit

SpecStream == InitStream /\ [][NextStream]_vars

\* every class, streamed or not, with the default options
NextExec ==
    \/ \E class \in Classes, s \in BOOLEAN : Execute(class, s, DefaultOptions(class), None)
    \/ Prepare
    \/ Send
    \/ ReadLine
    \/ Decode
    \/ Resume
    \/ Close

SpecExec == InitStream /\ [][NextExec]_vars

\* the payload of every class for every option object and conversation
NextPayload ==
    \/ \E class \in Classes, s \in BOOLEAN, conv \in Conversations :
          \E o \in Options(class) : Execute(class, s, o, conv)
    \/ Prepare

SpecPayload == InitStream /\ [][NextPayload]_vars

(***************************************************************************)
(* register_models and get_model_type.  A string the code works on         *)
(* character by character is the sequence of its characters.               *)
(***************************************************************************)
\* the characters of the model names of this model
Chars(name) ==
    CASE name = "GPT-4o" -> <<"G", "P", "T", "-", "4", "o">>
      [] name = "Claude-Sonnet-4" -> <<"C", "l", "a", "u", "d", "e", "-", "S", "o", "n", "n", "e", "t", "-", "4">>
      [] name = "Gemini-2.5-Pro" -> <<"G", "e", "m", "i", "n", "i", "-", "2", ".", "5", "-", "P", "r", "o">>
      [] name = "Llama-3.1-405B" -> <<"L", "l", "a", "m", "a", "-", "3", ".", "1", "-", "4", "0", "5", "B">>
      [] name = "Grok-4" -> <<"G", "r", "o", "k", "-", "4">>
      [] name = "Flux.Pro 1.1-Ultra" -> <<"F", "l", "u", "x", ".", "P", "r", "o", " ", "1", ".", "1", "-", "U", "l", "t", "r", "a">>
      [] name = "Sora-2" -> <<"S", "o", "r", "a", "-", "2">>
      [] name = "Audio-Image-Generator" -> <<"A", "u", "d", "i", "o", "-", "I", "m", "a", "g", "e", "-", "G", "e", "n", "e", "r", "a", "t", "o", "r">>
      [] name = "Video-Image-Creator" -> <<"V", "i", "d", "e", "o", "-", "I", "m", "a", "g", "e", "-", "C", "r", "e", "a", "t", "o", "r">>
      [] OTHER -> <<>>

\* str.lower() on one character
LowerChar(c) ==
    CASE c = "A" -> "a" [] c = "B" -> "b" [] c = "C" -> "c" [] c = "D" -> "d" [] c = "E" -> "e" [] c = "F" -> "f"
      [] c = "G" -> "g" [] c = "H" -> "h" [] c = "I" -> "i" [] c = "J" -> "j" [] c = "K" -> "k" [] c = "L" -> "l"
      [] c = "M" -> "m" [] c = "N" -> "n" [] c = "O" -> "o" [] c = "P" -> "p" [] c = "Q" -> "q" [] c = "R" -> "r"
      [] c = "S" -> "s" [] c = "T" -> "t" [] c = "U" -> "u" [] c = "V" -> "v" [] c = "W" -> "w" [] c = "X" -> "x"
      [] c = "Y" -> "y" [] c = "Z" -> "z"
      [] OTHER -> c

\* s.lower()
Lower(s) == [i \in 1..Len(s) |-> LowerChar(s[i])]

\* s.replace(old, new) for single characters
Replace(s, old, new) == [i \in 1..Len(s) |-> IF s[i] = old THEN new ELSE s[i]]

\* sub in s
Contains(s, sub) ==
    \E i \in 1..(Len(s) - Len(sub) + 1) : SubSeq(s, i, i + Len(sub) - 1) = sub

\* lines 93-96
image_indicators ==
    { <<"i", "m", "a", "g", "e", "n">>,
      <<"d", "a", "l", "l">>,
      <<"f", "l", "u", "x">>,
      <<"i", "d", "e", "o", "g", "r", "a", "m">>,
      <<"r", "e", "c", "r", "a", "f", "t">>,
      <<"p", "h", "o", "e", "n", "i", "x">>,
      <<"m", "i", "d", "j", "o", "u", "r", "n", "e", "y">>,
      <<"s", "t", "a", "b", "l", "e">>,
      <<"d", "i", "f", "f", "u", "s", "i", "o", "n">>,
      <<"d", "r", "a", "w">>,
      <<"g", "e", "n", "e", "r", "a", "t", "e">>,
      <<"c", "r", "e", "a", "t", "e">>,
      <<"a", "r", "t">>,
      <<"p", "i", "c", "t", "u", "r", "e">>,
      <<"i", "m", "a", "g", "e">> }

\* lines 99-102
video_indicators ==
    { <<"v", "e", "o">>,
      <<"s", "o", "r", "a">>,
      <<"r", "u", "n", "w", "a", "y">>,
      <<"k", "l", "i", "n", "g">>,
      <<"h", "a", "i", "l", "u", "o">>,
      <<"d", "r", "e", "a", "m">>,
      <<"p", "i", "k", "a">>,
      <<"v", "i", "d", "e", "o">>,
      <<"m", "o", "t", "i", "o", "n">>,
      <<"a", "n", "i", "m", "a", "t", "e">>,
      <<"f", "i", "l", "m">>,
      <<"m", "o", "v", "i", "e">> }

\* lines 105-108
audio_indicators ==
    { <<"e", "l", "e", "v", "e", "n", "l", "a", "b", "s">>,
      <<"c", "a", "r", "t", "e", "s", "i", "a">>,
      <<"p", "l", "a", "y", "a", "i">>,
      <<"o", "r", "p", "h", "e", "u", "s">>,
      <<"l", "y", "r", "i", "a">>,
      <<"t", "t", "s">>,
      <<"s", "p", "e", "e", "c", "h">>,
      <<"v", "o", "i", "c", "e">>,
      <<"a", "u", "d", "i", "o">>,
      <<"s", "p", "e", "a", "k">>,
      <<"s", "o", "u", "n", "d">>,
      <<"m", "u", "s", "i", "c">> }

\* the tests of lines 112-117 in the order image, video, audio
get_model_type_ImageFirst(model_name) ==
    LET name_lower == Lower(Chars(model_name)) IN
    IF \E indicator \in image_indicators : Contains(name_lower, indicator) THEN "image"
    ELSE IF \E indicator \in video_indicators : Contains(name_lower, indicator) THEN "video"
    ELSE IF \E indicator \in audio_indicators : Contains(name_lower, indicator) THEN "audio"
    ELSE "text"

\* get_model_type, lines 90-122
get_model_type(model_name) ==
    LET name_lower == Lower(Chars(model_name)) IN
    IF \E indicator \in audio_indicators : Contains(name_lower, indicator) THEN "audio"
    ELSE IF \E indicator \in video_indicators : Contains(name_lower, indicator) THEN "video"
    ELSE IF \E indicator \in image_indicators : Contains(name_lower, indicator) THEN "image"
    ELSE "text"

\* lines 495-502 (511-518): the class instantiated for a model type
ClassOfType(model_type) ==
    CASE model_type = "image" -> "PoeImageModel"
      [] model_type = "video" -> "PoeVideoModel"
      [] model_type = "audio" -> "PoeAudioModel"
      [] OTHER -> "PoeModel"

\* "poe/"
PoePrefix == <<"p", "o", "e", "/">>

\* line 490: the model_id of the try block
ModelId(model_name) ==
    PoePrefix \o Replace(Replace(Replace(Lower(Chars(model_name)), "-", "_"), ".", "_"), " ", "_")

\* line 507: the model_id of the except block
FallbackModelId(model_name) ==
    PoePrefix \o Replace(Lower(Chars(model_name)), "-", "_")

\* the instance handed to register
Instance(class, model_id, model_name) ==
    [class |-> class, model_id |-> model_id, model_name |-> model_name]

\* the names of the catalog entries
CatalogNames ==
    {"GPT-4o", "Gemini-2.5-Pro", "Flux.Pro 1.1-Ultra", "Sora-2", "Audio-Image-Generator",
     "Video-Image-Creator"}

\* what a catalog holds: model records, a record with an empty id, a record
\* without id, an entry that is no object
CatalogEntries ==
    { ModelRecord(n) : n \in CatalogNames }
    \cup { ModelRecord(""), JObj([k \in {"object"} |-> JStr("model")]), JStr("GPT-5") }

\* what fetch_available_models returns: the data of a response (a list, or
\* None for "data": null) or the fallback list
FetchedModels ==
    { JArr(s) : s \in SeqsUpTo(CatalogEntries, MaxModels) } \cup { FALLBACK_MODELS, None }

\* lines 487-502: one entry of the try block: skipped, registered (v is the
\* instance), or the exception raised
RegisterEntry(model_data) ==
    LET model_name == PyGet(model_data, "id", JStr("")) IN
    IF model_name.exc # "" THEN Raise(model_name.exc)
    ELSE IF ~Truthy(model_name.v) THEN Skip
    ELSE IF model_name.v.t # "str" THEN Raise("AttributeError")
    ELSE Yield(Instance(ClassOfType(get_model_type(model_name.v.s)), ModelId(model_name.v.s),
                        model_name.v.s))

\* lines 505-518: one entry of the except block
RegisterFallbackEntry(model_data) ==
    LET model_name == model_data.o["id"].s IN
    Instance(ClassOfType(get_model_type(model_name)), FallbackModelId(model_name), model_name)

\* line 484: models = fetch_available_models(); the for statement of line
\* 485 raises TypeError on a value that cannot be iterated
RegisterModels ==
    /\ reg_pc = "idle"
    /\ \E m \in FetchedModels :
        /\ reg_models' = m
        /\ IF m.t = "arr"
           THEN /\ reg_pc' = "try"
                /\ UNCHANGED reg_exc
           ELSE /\ reg_pc' = "except"
                /\ reg_exc' = "TypeError"
    /\ UNCHANGED <<reg_i, registered, reg_before>>
    /\ UNCHANGED <<catalogVars, execVars>>

\* lines 485-502: one turn of the loop of the try block; an exception
\* goes to the except clause of line 503
RegisterNext ==
    /\ reg_pc = "try"
    /\ IF reg_i = Len(reg_models.a)
       THEN /\ reg_pc' = "done"
            /\ UNCHANGED <<reg_i, registered, reg_exc, reg_before>>
       ELSE LET r == RegisterEntry(reg_models.a[reg_i + 1]) IN
            IF r.kind = "raise"
            THEN /\ reg_pc' = "except"
                 /\ reg_exc' = r.exc
                 /\ reg_i' = 0
                 /\ reg_before' = Len(registered)
                 /\ UNCHANGED registered
            ELSE /\ reg_i' = reg_i + 1
                 /\ registered' = IF r.kind = "yield" THEN Append(registered, r.v) ELSE registered
                 /\ UNCHANGED <<reg_pc, reg_exc, reg_before>>
    /\ UNCHANGED reg_models
    /\ UNCHANGED <<catalogVars, execVars>>

\* lines 505-518: one turn of the loop of the except block
RegisterFallback ==
    /\ reg_pc = "except"
    /\ IF reg_i = Len(FALLBACK_MODELS.a)
       THEN /\ reg_pc' = "done"
            /\ UNCHANGED <<reg_i, registered>>
       ELSE /\ reg_i' = reg_i + 1
            /\ registered' = Append(registered, RegisterFallbackEntry(FALLBACK_MODELS.a[reg_i + 1]))
            /\ UNCHANGED reg_pc
    /\ UNCHANGED <<reg_models, reg_exc, reg_before>>
    /\ UNCHANGED <<catalogVars, execVars>>

NextRegister ==
    \/ RegisterModels
    \/ RegisterNext
    \/ RegisterFallback

\* one invocation of register_models
SpecRegister == InitStream /\ [][NextRegister]_vars

(***************************************************************************)
(* Properties of fetch_available_models.                                   *)
(***************************************************************************)
CachePair == <<_model_cache, _cache_timestamp>>

\* the cache pair p (a list and a timestamp) is usable at time now
Valid(p, now) == p[1] # None /\ p[2] # None /\ now - p[2].n < _cache_duration

NoCredential == key_env # "present"

\* the fetch ended in an error: transport error, non-2xx status, or a body
\* that does not decode to a JSON object
FetchFailed(r) ==
    \/ r.kind = "error"
    \/ r.status < 200 \/ r.status > 299
    \/ ~r.body.ok
    \/ r.body.json.t # "obj"

\* the data array of a 2xx JSON object body, the empty list when it has none
DataOf(r) == IF "data" \in DOMAIN r.body.json.o THEN r.body.json.o["data"] ELSE JArr(<<>>)

Responded(t) == resp[t].kind # "none"

C2_FailedFetchKeepsCache ==
    /\ (pc[1] = "done" /\ Responded(1) /\ FetchFailed(resp[1])) =>
            /\ ret[1] = FALLBACK_MODELS
            /\ CachePair = pre[1]
    /\ _model_cache # FALLBACK_MODELS

C2_Witness ==
    /\ pc[1] = "done" /\ Responded(1) /\ FetchFailed(resp[1])
    /\ resp[1].kind = "http" /\ resp[1].status = 500
    /\ pre[1][1] # None /\ pre[1][2] # None
    /\ CachePair = pre[1]

\* the calls i < j of the log were made with a credential, within the cache
\* duration of each other
Within(i, j) ==
    /\ calls[i].cred /\ calls[j].cred
    /\ calls[j].start - calls[i].start < _cache_duration

\* C3 (as stated): two calls made with a credential within the cache
\* duration of each other issue at most one request in total, whatever the
\* outcome of the first.
C3_TwoCallsOneRequest ==
    \A i, j \in 1..Len(calls) :
        (i < j /\ Within(i, j)) => calls[i].reqs + calls[j].reqs <= 1

\* C3 (amended): two calls made with a credential within the cache duration
\* of each other issue at most one request in total when the first was
\* served from the cache or fetched and stored a list; when the first call's
\* fetch failed, the next call issues a request of its own.  A call made with
\* a credential once the cache duration has elapsed since the cached fetch
\* issues a request.
C3_OneRequestAfterCachedOrStored ==
    /\ \A i, j \in 1..Len(calls) :
            (i < j /\ Within(i, j) /\ calls[i].how \in {"cached", "stored"} /\ calls[i].list)
                => calls[i].reqs + calls[j].reqs <= 1
    /\ \A i \in 1..Len(calls) :
            (i < Len(calls) /\ calls[i].how = "failed" /\ calls[i + 1].cred)
                => calls[i + 1].reqs = 1
    /\ (pc[1] = "done" /\ key_env = "present" /\ pre[1][2] # None
            /\ current_time[1] - pre[1][2].n >= _cache_duration) => nreq[1] = 1

C3_Witness ==
    /\ Len(calls) = 3
    /\ Within(1, 3)
    /\ calls[1].how = "stored" /\ calls[1].list /\ calls[1].reqs = 1
    /\ calls[2].how = "cached" /\ calls[3].how = "cached"
    /\ calls[3].start > calls[1].start

\* C4: a call returns the cached list without a request exactly when a list
\* and a timestamp are cached and now - timestamp < duration; at
\* now - timestamp = duration the entry is expired and a call made with a
\* credential issues a request.
C4_CachedIffFresh ==
    pc[1] = "done" =>
        /\ (ret[1] = pre[1][1] /\ nreq[1] = 0) <=> Valid(pre[1], current_time[1])
        /\ (pre[1][1] # None /\ pre[1][2] # None
                /\ current_time[1] - pre[1][2].n = _cache_duration)
             => /\ ret[1] # pre[1][1] \/ nreq[1] = 1
                /\ key_env = "present" => nreq[1] = 1

C4_Witness ==
    /\ pc[1] = "done"
    /\ pre[1][1] # None /\ pre[1][2] # None /\ _cache_duration > 0
    /\ current_time[1] - pre[1][2].n = _cache_duration
    /\ nreq[1] = 1

\* C5: after a 2xx response with a JSON object body the call returns the
\* data array of the body (the empty list when it has no data field) and
\* the cache holds that list with the time of this call.
C5_SuccessStoresData ==
    (pc[1] = "done" /\ Responded(1) /\ ~FetchFailed(resp[1])) =>
        /\ ret[1] = DataOf(resp[1])
        /\ _model_cache = DataOf(resp[1])
        /\ _cache_timestamp = JNum(current_time[1])

C5_Witness ==
    /\ pc[1] = "done" /\ Responded(1) /\ ~FetchFailed(resp[1])
    /\ "data" \notin DOMAIN resp[1].body.json.o
    /\ pre[1][1] \notin {None, JArr(<<>>)}
    /\ pre[1][2] # JNum(current_time[1])
    /\ CachePair = <<JArr(<<>>), JNum(current_time[1])>>

\* C6: whenever no caller is between its two writes, a cached list is paired
\* with the timestamp written by the same fetch: the cache pair is the
\* (models, timestamp) pair of one single fetch.
C6_CachePairOfOneFetch ==
    ((\A t \in Threads : pc[t] # "l80") /\ _model_cache # None) =>
        \/ _cache_timestamp = JNum(cache_of)
        \/ _model_cache = timestamp_of

\* C7: a call never raises, and each failure on the way (credential lookup
\* raising or returning nothing, transport error, non-2xx status,
\* undecodable body) ends in the fallback list.
C7_NeverRaises ==
    pc[1] = "done" =>
        /\ ret[1] # Raised
        /\ (NoCredential /\ ~Valid(pre[1], current_time[1])) => ret[1] = FALLBACK_MODELS
        /\ (Responded(1) /\ FetchFailed(resp[1])) => ret[1] = FALLBACK_MODELS

C7_Witness ==
    /\ pc[1] = "done"
    /\ key_env = "raises"
    /\ pre[1][1] # None /\ ~Valid(pre[1], current_time[1])
    /\ ret[1] = FALLBACK_MODELS

\* C8: with a cache duration of 0 every call made with a credential issues a
\* request.
C8_ZeroDurationAlwaysFetches ==
    (pc[1] = "done" /\ _cache_duration = 0 /\ key_env = "present") => nreq[1] = 1

C8_Witness ==
    /\ pc[1] = "done" /\ _cache_duration = 0 /\ key_env = "present"
    /\ pre[1][1] # None /\ pre[1][2] = JNum(current_time[1])
    /\ nreq[1] = 1

(***************************************************************************)
(* Properties of the streaming decode.                                     *)
(***************************************************************************)
\* the exceptions raised before the first line of the body is read
OpenErrors == {"KeyLookupError", "ModelError", "HTTPStatusError"} \cup TransportErrors

IsTerminator(line) == line.head = "data: " /\ line.rest.raw = "[DONE]"

\* a data line that parses, has non-empty choices and carries a content key
HasContent(line) ==
    /\ line.head = "data: "
    /\ line.rest.raw = "json"
    /\ LET c == line.rest.val IN
        /\ c.t = "obj"
        /\ "choices" \in DOMAIN c.o
        /\ c.o["choices"].t = "arr"
        /\ Len(c.o["choices"].a) > 0
        /\ LET first == c.o["choices"].a[1] IN
            /\ first.t = "obj"
            /\ "delta" \in DOMAIN first.o
            /\ first.o["delta"].t = "obj"
            /\ "content" \in DOMAIN first.o["delta"].o

ContentOf(line) == line.rest.val.o["choices"].a[1].o["delta"].o["content"]

\* the lines before the first terminator
BeforeTerminator(ls) ==
    LET ends == {i \in 1..Len(ls) : IsTerminator(ls[i])} IN
    IF ends = {} THEN ls
    ELSE SubSeq(ls, 1, (CHOOSE i \in ends : \A j \in ends : i <= j) - 1)

\* the content values of the content lines before the first terminator, in wire order
ExpectedFragments(ls) ==
    LET kept == SelectSeq(BeforeTerminator(ls), HasContent) IN
    [i \in 1..Len(kept) |-> ContentOf(kept[i])]

Ended == gen_pc \in {"done", "error"} /\ exc \notin OpenErrors

\* C9: no data line ends the stream abnormally: once the body is being read
\* the generator raises nothing, and it ends only at the terminator or at
\* the end of the body.
C9_NoLineEndsStream ==
    /\ gen_pc = "error" => exc \in OpenErrors
    /\ gen_pc = "done" => (pos = Len(lines) \/ IsTerminator(lines[pos]))

\* C10: for every body, the fragments of a streamed call that has ended are
\* the content values of the data lines before the first terminator that
\* parse, have non-empty choices and carry a content key, in wire order.
C10_FragmentsAreContentValues ==
    Ended => fragments = ExpectedFragments(lines)

\* C11: once the line "data: [DONE]" has been consumed it is the last line
\* consumed: the generator has ended without an exception, and its fragments
\* are those of the lines before that first terminator, whatever the lines
\* after it carry.
C11_TerminatorEndsStream ==
    \A i \in 1..pos :
        IsTerminator(lines[i]) =>
            /\ pos = i
            /\ gen_pc = "done"
            /\ exc = ""
            /\ fragments = ExpectedFragments(lines)

C11_Witness ==
    /\ gen_pc = "done"
    /\ pos = 2 /\ Len(lines) = 3
    /\ IsTerminator(lines[2])
    /\ HasContent(lines[1]) /\ HasContent(lines[3])
    /\ fragments = <<ContentOf(lines[1])>>

(***************************************************************************)
(* Properties of execute.                                                  *)
(***************************************************************************)
\* the generator has run to its end, normally or with an exception
Finished == gen_pc \in {"done", "error"}

\* the request went out with client.post and came back 2xx with a body that
\* parses as JSON
PostParsed ==
    /\ dispatch = "post"
    /\ api_response.kind = "http"
    /\ ~raise_for_status(api_response)
    /\ api_response.body.ok

\* the parsed body of the response
Body == api_response.body.json

\* choices is absent from the body, or empty
ChoicesAbsentOrEmpty(body) ==
    ~(body.t = "obj" /\ "choices" \in DOMAIN body.o /\ Truthy(body.o["choices"]))

\* choices[0].message.content exists in the body
HasMessageContent(body) ==
    /\ body.t = "obj"
    /\ "choices" \in DOMAIN body.o
    /\ body.o["choices"].t = "arr"
    /\ Len(body.o["choices"].a) > 0
    /\ LET first == body.o["choices"].a[1] IN
        /\ first.t = "obj"
        /\ "message" \in DOMAIN first.o
        /\ first.o["message"].t = "obj"
        /\ "content" \in DOMAIN first.o["message"].o

MessageContentOf(body) == body.o["choices"].a[1].o["message"].o["content"]

\* C12: for every class, when a non-streaming execute that received a 2xx
\* response with a body that parses as JSON has ended, response.response_json
\* is the whole parsed body, whether or not a fragment was yielded.
C12_ParsedBodyStored ==
    (Finished /\ PostParsed) => response_json = Body

\* C13: for every class, the non-streaming decode of a 2xx JSON body yields
\* no fragment and raises nothing when choices is absent or empty, and
\* otherwise yields the one fragment choices[0].message.content.
C13_OneFragmentOrNone ==
    (gen_pc \in {"yielded", "done", "error", "closed"} /\ PostParsed) =>
        /\ exc = ""
        /\ IF ChoicesAbsentOrEmpty(Body) THEN fragments = <<>>
           ELSE HasMessageContent(Body) /\ fragments = <<MessageContentOf(Body)>>

\* a message of the payload
ConversationTurn(role, content) ==
    JObj([k \in {"role", "content"} |-> IF k = "role" THEN JStr(role) ELSE JStr(content)])

\* the earlier exchanges of the conversation, oldest first
PriorTurns == IF conversation = None THEN <<>> ELSE conversation.responses

\* C14: for every class, with the n earlier exchanges (Q1,A1)..(Qn,An) and
\* the prompt P the messages of the payload are user:Q1, assistant:A1, ...,
\* user:Qn, assistant:An, user:P, 2n+1 of them, every role user or
\* assistant; without a conversation they are just user:P.
C14_MessagesAreHistoryThenPrompt ==
    gen_pc = "ready" =>
        LET n == Len(PriorTurns)
            messages == payload["messages"].a
        IN  /\ Len(messages) = 2 * n + 1
            /\ \A i \in 1..n :
                /\ messages[2 * i - 1] = ConversationTurn("user", PriorTurns[i].prompt)
                /\ messages[2 * i] = ConversationTurn("assistant", PriorTurns[i].text)
            /\ messages[2 * n + 1] = ConversationTurn("user", PromptText)
            /\ \A i \in 1..Len(messages) : messages[i].o["role"] \in {JStr("user"), JStr("assistant")}
            /\ conversation = None => messages = <<ConversationTurn("user", PromptText)>>

C14_Witness ==
    /\ gen_pc = "ready"
    /\ variant = "PoeVideoModel"
    /\ Len(PriorTurns) = 2
    /\ PriorTurns[1].prompt = "Q2" /\ PriorTurns[2].prompt = "Q1"
    /\ Len(payload["messages"].a) = 5
    /\ payload["messages"].a[2] = ConversationTurn("assistant", "A2")

\* the payload has been built
PayloadBuilt == gen_pc \notin {"idle", "start"} /\ exc \notin {"KeyLookupError", "ModelError"}

\* the streaming flag the class resolves the caller's request to
ResolvedStream == IF variant \in {"PoeModel", "PoeAudioModel"} THEN stream ELSE FALSE

\* C15: the stream field of the payload is the caller's flag for PoeModel
\* and PoeAudioModel and false for PoeImageModel and PoeVideoModel whatever
\* the caller asks; the request is made as a stream exactly when that field
\* is true, and PoeImageModel and PoeVideoModel never read a line of a stream.
C15_StreamFieldIsResolvedFlag ==
    /\ PayloadBuilt => payload["stream"] = JBool(ResolvedStream)
    /\ dispatch # "none" => (dispatch = "stream" <=> payload["stream"] = JBool(TRUE))
    /\ variant \in {"PoeImageModel", "PoeVideoModel"} =>
            dispatch # "stream" /\ pos = 0 /\ gen_pc # "reading"

C15_Witness ==
    /\ gen_pc = "done"
    /\ dispatch = "post"
    /\ variant = "PoeVideoModel"
    /\ stream = TRUE
    /\ payload["stream"] = JBool(FALSE)
    /\ fragments # <<>>

\* C16: for every class and every option of its Options class, the payload
\* has the field, with the option's value, exactly when the value is not
\* None, zero and the empty string included; no field of the payload is null.
C16_OptionSentIffNotNone ==
    gen_pc = "ready" =>
        /\ \A n \in DOMAIN options :
            /\ n \in DOMAIN payload <=> options[n] # None
            /\ n \in DOMAIN payload => payload[n] = options[n]
        /\ \A k \in DOMAIN payload : payload[k] # None

\* C17: for the four classes, an execute that runs with no credential ends
\* with the llm.ModelError whose text names POE_API_KEY; no request has been
\* issued, no fragment yielded, and response.response_json is as it was.
C17_NoCredentialFailsBeforeRequest ==
    (key_env = "absent" /\ gen_pc \notin {"idle", "start"}) =>
        /\ gen_pc = "error"
        /\ exc = "ModelError"
        /\ \E i \in 1..Len(ModelErrorMessage) : ModelErrorMessage[i] = "POE_API_KEY"
        /\ http_requests = 0
        /\ dispatch = "none"
        /\ fragments = <<>>
        /\ response_json = None

C17_Witness ==
    /\ key_env = "absent"
    /\ gen_pc = "error"
    /\ exc = "ModelError"
    /\ variant = "PoeImageModel"
    /\ http_requests = 0

\* a response came back with a status outside 200..299
NonSuccess ==
    /\ dispatch # "none"
    /\ api_response.kind = "http"
    /\ (api_response.status < 200 \/ api_response.status > 299)

\* C18: for every class, streamed or not, a status outside 2xx ends execute
\* with an HTTPStatusError that carries that status; no fragment has been
\* yielded, nothing stands in for the output, response.response_json is as
\* it was and the one request is the only one.
C18_NonSuccessRaisesStatusError ==
    NonSuccess =>
        /\ gen_pc = "error"
        /\ exc = "HTTPStatusError"
        /\ exc_status = api_response.status
        /\ fragments = <<>>
        /\ response_json = None
        /\ http_requests = 1

C18_Witness ==
    /\ NonSuccess
    /\ variant = "PoeAudioModel"
    /\ dispatch = "stream"
    /\ api_response.status = 404
    /\ gen_pc = "error"
    /\ exc_status = 404

\* the request failed in the transport: no response came back
TransportFailed == dispatch # "none" /\ api_response.kind = "error"

\* C19: a failure of the transport, on the streamed or the plain request,
\* ends execute with that same exception; and on every path one execute
\* issues at most one request.
C19_TransportErrorPropagates ==
    /\ TransportFailed =>
            /\ gen_pc = "error"
            /\ exc = api_response.err
            /\ exc \in TransportErrors
            /\ fragments = <<>>
    /\ http_requests <= 1
    /\ http_requests = (IF dispatch = "none" THEN 0 ELSE 1)

C19_Witness ==
    /\ TransportFailed
    /\ dispatch = "stream"
    /\ gen_pc = "error"
    /\ exc = "ReadTimeout"
    /\ http_requests = 1

\* a data line whose remainder is neither the terminator nor JSON
Unparseable(line) == line.head = "data: " /\ line.rest.raw \notin {"json", "[DONE]"}

\* C20: a 2xx response to the plain request whose body is not JSON ends
\* execute with the decode error of json(), no fragment yielded and
\* response.response_json as it was; in a stream, a data line that is not
\* JSON raises nothing and the loop goes on to the next line; it ends
\* only when the body has no more lines (closing in order or broken off).
C20_DecodeErrorRaisedOrLineSkipped ==
    /\ (dispatch = "post" /\ api_response.kind = "http" /\ api_response.status \in 200..299
            /\ ~api_response.body.ok) =>
            /\ gen_pc = "error"
            /\ exc = "JSONDecodeError"
            /\ fragments = <<>>
            /\ response_json = None
    /\ (dispatch = "stream" /\ pos > 0 /\ Unparseable(lines[pos])) =>
            \/ gen_pc = "reading" /\ exc = ""
            \/ gen_pc = "done" /\ exc = "" /\ pos = Len(lines)
            \/ gen_pc = "error" /\ pos = Len(lines) /\ exc # "JSONDecodeError"
                    /\ exc = api_response.broken

C20_Witness ==
    /\ dispatch = "post"
    /\ variant = "PoeImageModel"
    /\ api_response.kind = "http" /\ api_response.status = 201
    /\ ~api_response.body.ok
    /\ gen_pc = "error"
    /\ exc = "JSONDecodeError"

\* execute has terminated: returned, raised, or been closed at a yield
Terminated == gen_pc \in {"done", "error", "closed"}

\* C21: on every way out of execute once the client was acquired (body at
\* its end, terminator, an exception, the consumer closing the generator at
\* a fragment) the client and the stream handle are released: no terminated
\* execute holds a connection.
C21_TerminatedHoldsNoConnection ==
    /\ Terminated => handles = {}
    /\ handles \subseteq acquired
    /\ gen_pc \in {"reading", "decoding", "yielded"} => handles = acquired

C21_Witness ==
    /\ gen_pc = "closed"
    /\ dispatch = "stream"
    /\ acquired = {"client", "stream"}
    /\ handles = {}
    /\ pos < Len(lines)

(***************************************************************************)
(* Properties of register_models.                                          *)
(***************************************************************************)
\* "poe/" followed by the name in lower case with '-', '.' and ' ' each
\* replaced by '_'
SanitizedId(name) ==
    <<"p", "o", "e", "/">> \o
        [i \in 1..Len(Chars(name)) |->
            IF Chars(name)[i] \in {"-", ".", " "} THEN "_" ELSE LowerChar(Chars(name)[i])]

\* the names of the model records of a list that have a name, in list order
RECURSIVE NamesOf(_)
NamesOf(list) ==
    IF list = <<>> THEN <<>>
    ELSE LET e == Head(list) IN
         (IF e.t = "obj" /\ "id" \in DOMAIN e.o /\ e.o["id"].t = "str" /\ e.o["id"].s # ""
          THEN <<e.o["id"].s>> ELSE <<>>) \o NamesOf(Tail(list))

\* the list whose registration register_models completed: the fetched list,
\* or the fallback list after an exception
RegisteredList == IF reg_exc = "" THEN reg_models.a ELSE FALLBACK_MODELS.a

\* the instances of the loop that ran to its end
Completed == SubSeq(registered, reg_before + 1, Len(registered))

\* C22: on the normal and on the exception path, register is called once
\* per model of the list being registered, in list order, with an instance
\* whose model_id is the sanitized id of the name ('-', '.' and ' ' each
\* replaced by '_') and whose model_name is the name.
C22_OncePerModelWithSanitizedId ==
    reg_pc = "done" =>
        /\ [i \in 1..Len(Completed) |-> Completed[i].model_name] = NamesOf(RegisteredList)
        /\ \A i \in 1..Len(registered) :
                registered[i].model_id = SanitizedId(registered[i].model_name)

\* the class of the highest-priority modality whose keywords match the name
ClassByPriority(name) ==
    LET lower == Lower(Chars(name))
        Matches(keywords) == \E k \in keywords : Contains(lower, k)
    IN  CASE Matches(audio_indicators) -> "PoeAudioModel"
          [] ~Matches(audio_indicators) /\ Matches(video_indicators) -> "PoeVideoModel"
          [] ~Matches(audio_indicators) /\ ~Matches(video_indicators) /\ Matches(image_indicators)
                -> "PoeImageModel"
          [] OTHER -> "PoeModel"

\* C23: the class registered for a model follows the keywords in its
\* lower-cased name with the priority audio > video > image > text: a name
\* that matches several sets gets the first of them, a name that matches
\* none is a plain text model.
C23_ClassByKeywordPriority ==
    \A i \in 1..Len(registered) :
        /\ registered[i].class = ClassByPriority(registered[i].model_name)
        /\ registered[i].model_name = "Audio-Image-Generator" => registered[i].class = "PoeAudioModel"
        /\ registered[i].model_name = "Video-Image-Creator" => registered[i].class = "PoeVideoModel"
        /\ registered[i].model_name = "GPT-4o" => registered[i].class = "PoeModel"

C23_Witness ==
    /\ reg_pc = "done"
    /\ Len(registered) = 2
    /\ registered[1].model_name = "Audio-Image-Generator" /\ registered[1].class = "PoeAudioModel"
    /\ registered[2].model_name = "Video-Image-Creator" /\ registered[2].class = "PoeVideoModel"

\* the fetched list names no model twice
NoDuplicateNames(list) ==
    \A i, j \in 1..Len(NamesOf(list)) : NamesOf(list)[i] = NamesOf(list)[j] => i = j

\* C29: when the catalog names no model twice, one invocation of
\* register_models registers no name twice, the exception path included.
C29_NoNameRegisteredTwice ==
    (reg_pc = "done" /\ reg_models # None /\ NoDuplicateNames(reg_models.a)) =>
        \A i, j \in 1..Len(registered) :
            registered[i].model_name = registered[j].model_name => i = j

(***************************************************************************)
(* Properties of the request's timeout and of the response slot.           *)
(***************************************************************************)
\* C24: the timeout passed with the completion request is fixed by the
\* modality: 30 seconds for Text and for a plain Audio completion, 60 for
\* Image, 120 for Video.
C24_TimeoutByModality ==
    dispatch # "none" =>
        timeout = CASE variant = "PoeModel" -> 30
                    [] variant = "PoeAudioModel" -> 30
                    [] variant = "PoeImageModel" -> 60
                    [] variant = "PoeVideoModel" -> 120

\* C24 (amended): the timeout passed with the completion request is fixed
\* by the modality: 30 seconds for Text, 60 for Image, 120 for Video, and
\* 60 for Audio on the streamed and on the plain request alike.
C24_TimeoutByModalityAudio60 ==
    dispatch # "none" =>
        timeout = CASE variant = "PoeModel" -> 30
                    [] variant = "PoeAudioModel" -> 60
                    [] variant = "PoeImageModel" -> 60
                    [] variant = "PoeVideoModel" -> 120

C24_Witness ==
    /\ dispatch = "post"
    /\ variant = "PoeAudioModel"
    /\ options = DefaultOptions("PoeAudioModel")
    /\ gen_pc = "done"
    /\ timeout = 60

\* C25: in a non-streaming execute the response slot still holds its prior
\* value while the single fragment is delivered, and is written only when
\* the consumer resumes past it: a consumer that stops at the fragment
\* leaves the slot unset, one that resumes finds the decoded body in it.
C25_SlotWrittenOnlyOnResume ==
    dispatch = "post" =>
        /\ gen_pc \in {"decoding", "yielded", "closed"} => response_json = None
        /\ response_json # None => (gen_pc = "done" /\ response_json = data)
        /\ (gen_pc = "done" /\ fragments # <<>>) => response_json = data

C25_Witness ==
    /\ dispatch = "post"
    /\ gen_pc = "closed"
    /\ Len(fragments) = 1
    /\ response_json = None

\* C26: a streamed execute never writes the response slot, whether it ends
\* at the terminator, at the end of the body or with an error.
C26_StreamLeavesSlotUnset ==
    dispatch = "stream" => response_json = None

C26_Witness ==
    /\ dispatch = "stream"
    /\ gen_pc = "done"
    /\ pos < Len(lines)
    /\ fragments # <<>>
    /\ response_json = None

\* s is an initial part of t
IsPrefix(s, t) == Len(s) <= Len(t) /\ SubSeq(t, 1, Len(s)) = s

\* the stream broke while the body was being read, and the error left execute
BrokenWhileReading ==
    /\ dispatch = "stream"
    /\ api_response.kind = "http"
    /\ api_response.status = 200
    /\ api_response.broken # ""
    /\ gen_pc = "error"
    /\ exc = api_response.broken

\* C27: when the stream breaks while the body is read, every line that
\* arrived has been processed before the error leaves execute, the fragments
\* delivered are those of the arrived lines in wire order, they are the
\* first fragments of the body whatever line would have come next, and
\* nothing follows the error.
C27_FragmentsBeforeTransportError ==
    /\ BrokenWhileReading =>
        /\ pos = Len(lines)
        /\ fragments = ExpectedFragments(lines)
        /\ \A l \in Lines : IsPrefix(fragments, ExpectedFragments(Append(lines, l)))
    /\ (gen_pc = "error" /\ dispatch = "stream" /\ exc \in TransportErrors /\ api_response.kind = "error")
            => fragments = <<>>

C27_Witness ==
    /\ BrokenWhileReading
    /\ Len(fragments) = 2
    /\ Len(lines) = 3
    /\ fragments[1] # fragments[2]

(***************************************************************************)
(* Properties of the cache under concurrent callers, and of the value of   *)
(* fetch_available_models.                                                 *)
(***************************************************************************)
\* C28: whatever the interleaving of the calls, the cache timestamp never
\* decreases, and the list stored by a call that read the clock earlier
\* never replaces the list stored by a call that read it later.
C28_TimestampNeverDecreases ==
    [][ /\ _cache_timestamp # None =>
              (_cache_timestamp' # None /\ _cache_timestamp'.n >= _cache_timestamp.n)
        /\ cache_of' >= cache_of ]_vars

\* C30: fetch_available_models returns a list of model records and never
\* null, and the cache never holds null as the model list together with a
\* timestamp, whatever the 2xx JSON body.
C30_AlwaysAList ==
    /\ \A t \in Threads : (pc[t] = "done" /\ how[t] # "raised") => ret[t].t = "arr"
    /\ ~(_model_cache = None /\ _cache_timestamp # None)

TypeOK ==
    /\ clock \in 0..MaxTime
    /\ ncalls \in 0..MaxCalls
    /\ Len(calls) <= MaxCalls
====
